---- MODULE Spec2Model ----
(***************************************************************************)
(* The authentication state manager (AuthProvider) of the campus companion *)
(* app, with the AsyncStorage session store it persists to.                *)
(*                                                                         *)
(* JavaScript strings are sequences of one-character strings.  A value     *)
(* returned by AsyncStorage.getItem is a record [t, s]; a value held in    *)
(* the `user` React state is a record [t, id, email, name].                *)
(*                                                                         *)
(* Every record constructor lists its fields in the order in which the     *)
(* field names first occur in this module, the order in which TLC keeps    *)
(* them.                                                                   *)
(***************************************************************************)
EXTENDS Integers, Sequences, FiniteSets, Bags, TLC

(***************************************************************************)
(* Bounds of the model.                                                    *)
(***************************************************************************)
MaxInFlight == 1     \* operations in flight at once, the bootstrap read aside
MaxIds == 1          \* distinct results of Math.random()

(***************************************************************************)
(* Inputs the UI flows pass to the operations.                             *)
(***************************************************************************)
EmailTwoAt == <<"a", "@", "b", "@", "c">>
EmailNoAt == <<"n">>
Emails == {<< >>, EmailTwoAt}

PasswordShort == <<"p", "a", "s", "s", "w", "o", "r">>
PasswordOk == <<"p", "a", "s", "s", "w", "o", "r", "d">>

NameAnn == <<"A", "n", "n">>

\* login calls: two that pass its check and one for each way of failing it
LoginInputs ==
    { <<EmailTwoAt, PasswordOk>>,
      <<EmailNoAt, PasswordShort>>,
      <<<< >>, PasswordOk>>,
      <<EmailTwoAt, << >> >> }

\* signUp calls: a valid one, one for each check it can fail, and the empty form
SignUpInputs ==
    { <<EmailTwoAt, PasswordOk, NameAnn>>,
      <<<< >>, PasswordOk, NameAnn>>,
      <<EmailTwoAt, << >>, NameAnn>>,
      <<EmailTwoAt, PasswordOk, << >> >>,
      <<EmailTwoAt, PasswordShort, NameAnn>>,
      <<<< >>, << >>, << >> >> }

MinPasswordLength == 8

Ids == {<<"0.", i>> : i \in 1..MaxIds}

(***************************************************************************)
(* JavaScript values.                                                      *)
(***************************************************************************)
NoUser == [t |-> "null", id |-> << >>, email |-> << >>, name |-> << >>]
NumberValue == [t |-> "number", id |-> << >>, email |-> << >>, name |-> << >>]
UserObject(id, email, name) ==
    [t |-> "object", id |-> id, email |-> email, name |-> name]

JsNull == [t |-> "null", s |-> << >>]
JsString(s) == [t |-> "string", s |-> s]
JsRejected == [t |-> "rejected", s |-> << >>]

\* JavaScript truthiness of a getItem result: null and "" are falsy.
Truthy(v) == v.t = "string" /\ v.s # << >>

\* !s for a string argument
IsEmptyString(s) == Len(s) = 0

(***************************************************************************)
(* email.split('@')[0]: the characters before the first '@', or the whole  *)
(* string when it has none.                                                *)
(***************************************************************************)
\* variant: cuts at the last separator instead of the first
RECURSIVE SplitLast(_, _)
SplitLast(s, sep) ==
    IF s = << >> THEN << >>
    ELSE IF \A i \in 1..Len(s) : s[i] # sep THEN s
    ELSE IF s[Len(s)] = sep THEN SubSeq(s, 1, Len(s) - 1)
    ELSE SplitLast(SubSeq(s, 1, Len(s) - 1), sep)

RECURSIVE SplitFirst(_, _)
SplitFirst(s, sep) ==
    IF s = << >> THEN << >>
    ELSE IF Head(s) = sep THEN << >>
    ELSE <<Head(s)>> \o SplitFirst(Tail(s), sep)

(***************************************************************************)
(* JSON.stringify of a User and JSON.parse of a stored text.  A text is a  *)
(* sequence of JSON tokens.                                                *)
(***************************************************************************)
\* variant: the id is left out of the persisted record
JSONStringify_NoId(u) ==
    <<"{", "id", << >>, "email", u.email, "name", u.name, "}">>

JSONStringify(u) ==
    <<"{", "id", u.id, "email", u.email, "name", u.name, "}">>

TextNull == <<"null">>
TextNumber == <<"0">>
TextCorrupt == <<"{", "id", ":">>

JSONParse(text) ==
    IF text = TextNull THEN [threw |-> FALSE, val |-> NoUser]
    ELSE IF text = TextNumber THEN [threw |-> FALSE, val |-> NumberValue]
    ELSE IF /\ Len(text) = 8
            /\ text[1] = "{" /\ text[2] = "id" /\ text[4] = "email"
            /\ text[6] = "name" /\ text[8] = "}"
         THEN [threw |-> FALSE, val |-> UserObject(text[3], text[5], text[7])]
    ELSE [threw |-> TRUE, val |-> NoUser]

\* 'mock-token-' + Date.now(); the reading of the clock is left symbolic
MockToken == <<"mock-token-", "now">>

(***************************************************************************)
(* The session store: for each of the two keys what getItem returns for    *)
(* it, null when the key is not stored.                                    *)
(***************************************************************************)
StoreOf(tok, text) == [authToken |-> tok, userData |-> text]
EmptyStore == StoreOf(JsNull, JsNull)

\* AsyncStorage.getItem(key)
GetItem(st, key) == st[key]

\* variant: only the user data is written
MultiSet_UserDataOnly(st, tok, text) == StoreOf(st.authToken, JsString(text))

\* AsyncStorage.multiSet([['authToken', token], ['userData', text]])
MultiSet(st, tok, text) == StoreOf(JsString(tok), JsString(text))

\* variant: only the token is removed
MultiRemove_TokenOnly(st) == StoreOf(JsNull, st.userData)

\* AsyncStorage.multiRemove(['authToken', 'userData'])
MultiRemove(st) == StoreOf(JsNull, JsNull)

\* what the store may hold when the app is first launched: nothing, or a
\* partial or damaged session
StaleText == JSONStringify(UserObject(<<"0.", 1>>, EmailTwoAt, <<"a">>))
InitialStores ==
    { EmptyStore,
      StoreOf(JsString(MockToken), JsNull),
      StoreOf(JsNull, JsString(StaleText)),
      StoreOf(JsString(MockToken), JsString(TextCorrupt)),
      StoreOf(JsString(MockToken), JsString(TextNumber)),
      StoreOf(JsString(MockToken), JsString(TextNull)) }

VARIABLES
    user,        \* useState<User | null>
    isLoading,   \* useState(true)
    value,       \* the context value of the last render
    store,       \* AsyncStorage
    boot,        \* the bootstrapAsync call of this provider
    ops,         \* bag of the login/signUp/logout/resetPassword calls in flight
    overlapped,  \* history: an operation was issued while another was in flight
    delivered,   \* the promise settlement this step hands to the caller
    screen,      \* the screen on display, with its React state
    input,       \* the argument of a validation function
    output       \* what the validation function returned

vars ==
    <<user, isLoading, value, store, boot, ops, overlapped, delivered,
      screen, input, output>>

\* what the provider and the store leave alone
others == <<screen, input, output>>

(***************************************************************************)
(* The value AuthProvider renders into the context.                        *)
(***************************************************************************)
\* variant: isSignedIn computed as !!user
ProviderValue_Truthy(u, l) ==
    [user |-> u, isLoading |-> l, isSignedIn |-> (u.t = "object")]

ProviderValue(u, l) ==
    [user |-> u, isLoading |-> l, isSignedIn |-> (u # NoUser)]

Render == value' = ProviderValue(user', isLoading')

Nothing == [who |-> "none", outcome |-> "none", error |-> ""]
Resolved(who) == [who |-> who, outcome |-> "resolved", error |-> ""]
Rejected(who, msg) == [who |-> who, outcome |-> "rejected", error |-> msg]
\* no settlement: the step mounted a fresh provider
Mounted == [who |-> "AuthProvider", outcome |-> "mounted", error |-> ""]

Op(kind, pc, email, password, name, mockUser, token) ==
    [email |-> email, name |-> name, kind |-> kind, pc |-> pc,
     password |-> password, mockUser |-> mockUser, token |-> token]

BootState(pc, token, userData) ==
    [userData |-> userData, pc |-> pc, token |-> token]

InFlight == boot.pc # "done" \/ ops # EmptyBag

\* the provider has just mounted
AuthInit ==
    /\ user = NoUser
    /\ isLoading = TRUE
    /\ value = ProviderValue(NoUser, TRUE)
    /\ store \in InitialStores
    /\ boot = BootState("getToken", JsNull, JsNull)
    /\ ops = EmptyBag
    /\ overlapped = FALSE
    /\ delivered = Mounted

\* the provider on its own: no screen is modelled and no function applied
NoScreen == "none"
NoInput == << >>
NoOutput == "none"

Init ==
    /\ AuthInit
    /\ screen = NoScreen
    /\ input = NoInput
    /\ output = NoOutput

(***************************************************************************)
(* A UI flow calls an operation.  The synchronous prefix of the function   *)
(* runs in the call: setIsLoading(true), then the first await.             *)
(***************************************************************************)
Call(op) ==
    /\ ops' = ops (+) SetToBag({op})
    /\ overlapped' = InFlight
    /\ isLoading' = TRUE
    /\ delivered' = Nothing
    /\ UNCHANGED <<user, store, boot>>
    /\ Render

\* a call by a caller under no discipline, while the bound allows
Issue(op) ==
    /\ BagCardinality(ops) < MaxInFlight
    /\ Call(op)

Login(email, password) ==
    Issue(Op("login", "timer", email, password, << >>, NoUser, << >>))

SignUp(email, password, name) ==
    Issue(Op("signUp", "timer", email, password, name, NoUser, << >>))

Logout ==
    Issue(Op("logout", "multiRemove", << >>, << >>, << >>, NoUser, << >>))

ResetPassword(email) ==
    Issue(Op("resetPassword", "timer", email, << >>, << >>, NoUser, << >>))

\* variant: isLoading is reset on the success path only
Settle_NoFinally(op, newUser, result) ==
    /\ ops' = ops (-) SetToBag({op})
    /\ user' = newUser
    /\ isLoading' = IF result.outcome = "rejected" THEN isLoading ELSE FALSE
    /\ delivered' = result
    /\ UNCHANGED <<store, boot, overlapped>>
    /\ Render

\* variant: the effect that starts bootstrapAsync depends on user
Settle_EffectOnUser(op, newUser, result) ==
    /\ ops' = ops (-) SetToBag({op})
    /\ user' = newUser
    /\ isLoading' = FALSE
    /\ delivered' = result
    /\ boot' = IF newUser # user THEN BootState("getToken", JsNull, JsNull)
                                ELSE boot
    /\ UNCHANGED <<store, overlapped>>
    /\ Render

\* the operation leaves its try block: finally runs, the promise settles
Settle(op, newUser, result) ==
    /\ ops' = ops (-) SetToBag({op})
    /\ user' = newUser
    /\ isLoading' = FALSE
    /\ delivered' = result
    /\ UNCHANGED <<store, boot, overlapped>>
    /\ Render

\* the operation reaches its next await
Advance(op, next) ==
    /\ ops' = (ops (-) SetToBag({op})) (+) SetToBag({next})
    /\ delivered' = Nothing
    /\ UNCHANGED <<user, isLoading, value, boot, overlapped>>

(***************************************************************************)
(* login: the timer fires; validation, then multiSet is issued.            *)
(***************************************************************************)
\* variant: only the email is validated
LoginAfterTimer_EmailOnly(op) ==
    /\ op.kind = "login" /\ op.pc = "timer"
    /\ IF IsEmptyString(op.email)
       THEN Settle(op, user, Rejected("login", "Email and password are required"))
       ELSE /\ \E id \in Ids :
                 Advance(op, [op EXCEPT
                     !.pc = "multiSet", !.password = << >>,
                     !.mockUser = UserObject(id, op.email, SplitFirst(op.email, "@")),
                     !.token = MockToken])
            /\ UNCHANGED store

LoginAfterTimer(op) ==
    /\ op.kind = "login" /\ op.pc = "timer"
    /\ IF IsEmptyString(op.email) \/ IsEmptyString(op.password)
       THEN Settle(op, user, Rejected("login", "Email and password are required"))
       ELSE /\ \E id \in Ids :
                 Advance(op, [op EXCEPT
                     !.pc = "multiSet", !.password = << >>,
                     !.mockUser = UserObject(id, op.email, SplitFirst(op.email, "@")),
                     !.token = MockToken])
            /\ UNCHANGED store

LoginAfterMultiSet(op) ==
    /\ op.kind = "login"
    /\ \/ /\ op.pc = "setDone"
          /\ Settle(op, op.mockUser, Resolved("login"))
       \/ /\ op.pc = "failed"
          /\ Settle(op, user, Rejected("login", "storage"))

(***************************************************************************)
(* signUp                                                                  *)
(***************************************************************************)
\* variant: the length check is off by one
SignUpAfterTimer_OffByOne(op) ==
    /\ op.kind = "signUp" /\ op.pc = "timer"
    /\ IF IsEmptyString(op.email) \/ IsEmptyString(op.password)
          \/ IsEmptyString(op.name)
       THEN Settle(op, user, Rejected("signUp", "All fields are required"))
       ELSE IF Len(op.password) < MinPasswordLength - 1
       THEN Settle(op, user,
                Rejected("signUp", "Password must be at least 8 characters"))
       ELSE /\ \E id \in Ids :
                 Advance(op, [op EXCEPT
                     !.pc = "multiSet", !.password = << >>,
                     !.mockUser = UserObject(id, op.email, op.name),
                     !.token = MockToken])
            /\ UNCHANGED store

\* variant: a password of exactly the minimum length is refused
SignUpAfterTimer_LongerPassword(op) ==
    /\ op.kind = "signUp" /\ op.pc = "timer"
    /\ IF IsEmptyString(op.email) \/ IsEmptyString(op.password)
          \/ IsEmptyString(op.name)
       THEN Settle(op, user, Rejected("signUp", "All fields are required"))
       ELSE IF Len(op.password) <= MinPasswordLength
       THEN Settle(op, user,
                Rejected("signUp", "Password must be at least 8 characters"))
       ELSE /\ \E id \in Ids :
                 Advance(op, [op EXCEPT
                     !.pc = "multiSet", !.password = << >>,
                     !.mockUser = UserObject(id, op.email, op.name),
                     !.token = MockToken])
            /\ UNCHANGED store

SignUpAfterTimer(op) ==
    /\ op.kind = "signUp" /\ op.pc = "timer"
    /\ IF IsEmptyString(op.email) \/ IsEmptyString(op.password)
          \/ IsEmptyString(op.name)
       THEN Settle(op, user, Rejected("signUp", "All fields are required"))
       ELSE IF Len(op.password) < MinPasswordLength
       THEN Settle(op, user,
                Rejected("signUp", "Password must be at least 8 characters"))
       ELSE /\ \E id \in Ids :
                 Advance(op, [op EXCEPT
                     !.pc = "multiSet", !.password = << >>,
                     !.mockUser = UserObject(id, op.email, op.name),
                     !.token = MockToken])
            /\ UNCHANGED store

SignUpAfterMultiSet(op) ==
    /\ op.kind = "signUp"
    /\ \/ /\ op.pc = "setDone"
          /\ Settle(op, op.mockUser, Resolved("signUp"))
       \/ /\ op.pc = "failed"
          /\ Settle(op, user, Rejected("signUp", "storage"))

(***************************************************************************)
(* logout                                                                  *)
(***************************************************************************)
\* variant: a failed removal clears the user all the same
LogoutAfterMultiRemove_ClearAlways(op) ==
    /\ op.kind = "logout"
    /\ \/ /\ op.pc = "removeDone"
          /\ Settle(op, NoUser, Resolved("logout"))
       \/ /\ op.pc = "failed"
          /\ Settle(op, NoUser, Rejected("logout", "storage"))

LogoutAfterMultiRemove(op) ==
    /\ op.kind = "logout"
    /\ \/ /\ op.pc = "removeDone"
          /\ Settle(op, NoUser, Resolved("logout"))
       \/ /\ op.pc = "failed"
          /\ Settle(op, user, Rejected("logout", "storage"))

(***************************************************************************)
(* resetPassword                                                           *)
(***************************************************************************)
\* variant: a completed reset signs the user out
ResetPasswordAfterTimer_SignsOut(op) ==
    /\ op.kind = "resetPassword" /\ op.pc = "timer"
    /\ IF IsEmptyString(op.email)
       THEN Settle(op, user, Rejected("resetPassword", "Email is required"))
       ELSE Settle(op, NoUser, Resolved("resetPassword"))

ResetPasswordAfterTimer(op) ==
    /\ op.kind = "resetPassword" /\ op.pc = "timer"
    /\ IF IsEmptyString(op.email)
       THEN Settle(op, user, Rejected("resetPassword", "Email is required"))
       ELSE Settle(op, user, Resolved("resetPassword"))

(***************************************************************************)
(* AsyncStorage carries out a pending request and queues its callback.     *)
(* A request may fail; a failed request leaves the store as it was.        *)
(* Locals the rest of the function no longer reads are dropped.            *)
(***************************************************************************)
Failed(op) == Op(op.kind, "failed", << >>, << >>, << >>, NoUser, << >>)

StorageMultiSet(op) ==
    /\ op.pc = "multiSet"
    /\ \/ /\ store' = MultiSet(store, op.token, JSONStringify(op.mockUser))
          /\ Advance(op, [op EXCEPT !.pc = "setDone", !.token = << >>])
       \/ /\ store' = store
          /\ Advance(op, Failed(op))

\* variant: a failed removal is never answered
StorageMultiRemove_Lost(op) ==
    /\ op.pc = "multiRemove"
    /\ \/ /\ store' = MultiRemove(store)
          /\ Advance(op, [op EXCEPT !.pc = "removeDone"])
       \/ /\ store' = store
          /\ Advance(op, [op EXCEPT !.pc = "lost"])

StorageMultiRemove(op) ==
    /\ op.pc = "multiRemove"
    /\ \/ /\ store' = MultiRemove(store)
          /\ Advance(op, [op EXCEPT !.pc = "removeDone"])
       \/ /\ store' = store
          /\ Advance(op, Failed(op))

StorageGetItem ==
    /\ \/ /\ boot.pc = "getToken"
          /\ \E r \in {GetItem(store, "authToken"), JsRejected} :
                boot' = [boot EXCEPT !.pc = "gotToken", !.token = r]
       \/ /\ boot.pc = "getUserData"
          /\ \E r \in {GetItem(store, "userData"), JsRejected} :
                boot' = [boot EXCEPT !.pc = "gotUserData", !.userData = r]
    /\ delivered' = Nothing
    /\ UNCHANGED <<user, isLoading, value, store, ops, overlapped>>

(***************************************************************************)
(* bootstrapAsync resumes after its first and after its second getItem.    *)
(***************************************************************************)
\* variant: bootstrapAsync has no finally block
BootFinish_NoFinally(newUser, result) ==
    /\ boot' = BootState("done", JsNull, JsNull)
    /\ user' = newUser
    /\ isLoading' = isLoading
    /\ delivered' = result
    /\ UNCHANGED <<store, ops, overlapped>>
    /\ Render

BootFinish(newUser, result) ==
    /\ boot' = BootState("done", JsNull, JsNull)
    /\ user' = newUser
    /\ isLoading' = FALSE
    /\ delivered' = result
    /\ UNCHANGED <<store, ops, overlapped>>
    /\ Render

BootstrapAfterToken ==
    /\ boot.pc = "gotToken"
    /\ IF boot.token = JsRejected
       THEN BootFinish(user, Resolved("bootstrap"))
       ELSE /\ boot' = [boot EXCEPT !.pc = "getUserData"]
            /\ delivered' = Nothing
            /\ UNCHANGED <<user, isLoading, value, store, ops, overlapped>>

\* variant: the token is not consulted
BootstrapAfterUserData_NoTokenCheck ==
    /\ boot.pc = "gotUserData"
    /\ IF boot.userData = JsRejected
       THEN BootFinish(user, Resolved("bootstrap"))
       ELSE IF Truthy(boot.userData)
       THEN LET parsed == JSONParse(boot.userData.s)
            IN  IF parsed.threw
                THEN BootFinish(user, Resolved("bootstrap"))
                ELSE BootFinish(parsed.val, Resolved("bootstrap"))
       ELSE BootFinish(user, Resolved("bootstrap"))

BootstrapAfterUserData ==
    /\ boot.pc = "gotUserData"
    /\ IF boot.userData = JsRejected
       THEN BootFinish(user, Resolved("bootstrap"))
       ELSE IF Truthy(boot.token) /\ Truthy(boot.userData)
       THEN LET parsed == JSONParse(boot.userData.s)
            IN  IF parsed.threw
                THEN BootFinish(user, Resolved("bootstrap"))
                ELSE BootFinish(parsed.val, Resolved("bootstrap"))
       ELSE BootFinish(user, Resolved("bootstrap"))

(***************************************************************************)
(* The app is launched again: a fresh AuthProvider is mounted over the     *)
(* store the previous one left; its effect starts bootstrapAsync.          *)
(***************************************************************************)
Mount ==
    /\ user' = NoUser
    /\ isLoading' = TRUE
    /\ boot' = BootState("getToken", JsNull, JsNull)
    /\ ops' = EmptyBag
    /\ overlapped' = FALSE
    /\ delivered' = Mounted
    /\ UNCHANGED store
    /\ Render

Next ==
    \/ \E args \in LoginInputs : Login(args[1], args[2]) /\ UNCHANGED others
    \/ \E args \in SignUpInputs : SignUp(args[1], args[2], args[3]) /\ UNCHANGED others
    \/ Logout /\ UNCHANGED others
    \/ \E e \in Emails : ResetPassword(e) /\ UNCHANGED others
    \/ \E op \in BagToSet(ops) : LoginAfterTimer(op) /\ UNCHANGED others
    \/ \E op \in BagToSet(ops) : LoginAfterMultiSet(op) /\ UNCHANGED others
    \/ \E op \in BagToSet(ops) : SignUpAfterTimer(op) /\ UNCHANGED others
    \/ \E op \in BagToSet(ops) : SignUpAfterMultiSet(op) /\ UNCHANGED others
    \/ \E op \in BagToSet(ops) : LogoutAfterMultiRemove(op) /\ UNCHANGED others
    \/ \E op \in BagToSet(ops) : ResetPasswordAfterTimer(op) /\ UNCHANGED others
    \/ \E op \in BagToSet(ops) : StorageMultiSet(op) /\ UNCHANGED others
    \/ \E op \in BagToSet(ops) : StorageMultiRemove(op) /\ UNCHANGED others
    \/ StorageGetItem /\ UNCHANGED others
    \/ BootstrapAfterToken /\ UNCHANGED others
    \/ BootstrapAfterUserData /\ UNCHANGED others
    \/ Mount /\ UNCHANGED others

Spec == Init /\ [][Next]_vars

(***************************************************************************)
(* One lifetime of the provider, with the scheduling the runtime gives:    *)
(* a timer that was set fires, AsyncStorage answers every request, and a   *)
(* continuation whose promise has settled is run, each in its turn, so     *)
(* that the requests of one kind of operation are not held back by those   *)
(* of another.  Calls by the UI are under no obligation.                   *)
(***************************************************************************)
\* calls that pass the checks of their operation and calls that fail them
LiveLoginInputs == {<<EmailTwoAt, PasswordOk>>, <<EmailTwoAt, << >> >>}
LiveSignUpInputs == {<<EmailTwoAt, PasswordOk, NameAnn>>}
LiveEmails == {<< >>}

\* a store whose two keys bootstrap reads and whose user data it parses
LiveInit ==
    /\ Init
    /\ store = StoreOf(JsString(MockToken), JsString(TextCorrupt))

LiveNext ==
    \/ \E args \in LiveLoginInputs : Login(args[1], args[2]) /\ UNCHANGED others
    \/ \E args \in LiveSignUpInputs : SignUp(args[1], args[2], args[3]) /\ UNCHANGED others
    \/ Logout /\ UNCHANGED others
    \/ \E e \in LiveEmails : ResetPassword(e) /\ UNCHANGED others
    \/ \E op \in BagToSet(ops) : LoginAfterTimer(op) /\ UNCHANGED others
    \/ \E op \in BagToSet(ops) : LoginAfterMultiSet(op) /\ UNCHANGED others
    \/ \E op \in BagToSet(ops) : SignUpAfterTimer(op) /\ UNCHANGED others
    \/ \E op \in BagToSet(ops) : SignUpAfterMultiSet(op) /\ UNCHANGED others
    \/ \E op \in BagToSet(ops) : LogoutAfterMultiRemove(op) /\ UNCHANGED others
    \/ \E op \in BagToSet(ops) : ResetPasswordAfterTimer(op) /\ UNCHANGED others
    \/ \E op \in BagToSet(ops) : StorageMultiSet(op) /\ UNCHANGED others
    \/ \E op \in BagToSet(ops) : StorageMultiRemove(op) /\ UNCHANGED others
    \/ StorageGetItem /\ UNCHANGED others
    \/ BootstrapAfterToken /\ UNCHANGED others
    \/ BootstrapAfterUserData /\ UNCHANGED others

Fairness ==
    /\ WF_vars((\E op \in BagToSet(ops) : LoginAfterTimer(op)) /\ UNCHANGED others)
    /\ WF_vars((\E op \in BagToSet(ops) : LoginAfterMultiSet(op)) /\ UNCHANGED others)
    /\ WF_vars((\E op \in BagToSet(ops) : SignUpAfterTimer(op)) /\ UNCHANGED others)
    /\ WF_vars((\E op \in BagToSet(ops) : SignUpAfterMultiSet(op)) /\ UNCHANGED others)
    /\ WF_vars((\E op \in BagToSet(ops) : LogoutAfterMultiRemove(op)) /\ UNCHANGED others)
    /\ WF_vars((\E op \in BagToSet(ops) : ResetPasswordAfterTimer(op)) /\ UNCHANGED others)
    /\ \A k \in {"login", "signUp"} :
          WF_vars((\E op \in BagToSet(ops) : op.kind = k /\ StorageMultiSet(op)) /\ UNCHANGED others)
    /\ WF_vars((\E op \in BagToSet(ops) : StorageMultiRemove(op)) /\ UNCHANGED others)
    /\ WF_vars((StorageGetItem) /\ UNCHANGED others)
    /\ WF_vars((BootstrapAfterToken) /\ UNCHANGED others)
    /\ WF_vars((BootstrapAfterUserData) /\ UNCHANGED others)

LiveSpec == LiveInit /\ [][LiveNext]_vars /\ Fairness

(***************************************************************************)
(* The validation utilities.                                               *)
(***************************************************************************)
UpperCase ==
    {"A", "B", "C", "D", "E", "F", "G", "H", "I", "J", "K", "L", "M",
     "N", "O", "P", "Q", "R", "S", "T", "U", "V", "W", "X", "Y", "Z"}
LowerCase ==
    {"a", "b", "c", "d", "e", "f", "g", "h", "i", "j", "k", "l", "m",
     "n", "o", "p", "q", "r", "s", "t", "u", "v", "w", "x", "y", "z"}
Digits == {"0", "1", "2", "3", "4", "5", "6", "7", "8", "9"}
SpecialChars ==
    {"!", "@", "#", "$", "%", "^", "&", "*", "(", ")", "_", "+", "-", "=",
     "[", "]", "{", "}", ";", "'", ":", "\"", "\\", "|", ",", ".", "<", ">",
     "/", "?"}

\* /[...]/.test(str): some character of str is in the class
Test(class, str) == \E i \in 1..Len(str) : str[i] \in class

ValidatePassword(password) ==
    [isLengthValid |-> Len(password) >= MinPasswordLength,
     hasUpperCase |-> Test(UpperCase, password),
     hasLowerCase |-> Test(LowerCase, password),
     hasNumber |-> Test(Digits, password),
     hasSpecialChar |-> Test(SpecialChars, password)]

MaxStrength == 4

Min(a, b) == IF a < b THEN a ELSE b

\* variant: an upper-case and a lower-case letter earn a point each
GetPasswordStrength_TwoPoints(password) ==
    IF password = << >> THEN 0
    ELSE LET validation == ValidatePassword(password)
             s1 == IF validation.isLengthValid THEN 1 ELSE 0
             s2 == IF validation.hasUpperCase THEN s1 + 1 ELSE s1
             s3 == IF validation.hasLowerCase THEN s2 + 1 ELSE s2
             s4 == IF validation.hasNumber THEN s3 + 1 ELSE s3
             s5 == IF validation.hasSpecialChar THEN s4 + 1 ELSE s4
         IN  Min(s5, MaxStrength)

GetPasswordStrength(password) ==
    IF password = << >> THEN 0
    ELSE LET validation == ValidatePassword(password)
             s1 == IF validation.isLengthValid THEN 1 ELSE 0
             s2 == IF validation.hasUpperCase /\ validation.hasLowerCase
                   THEN s1 + 1 ELSE s1
             s3 == IF validation.hasNumber THEN s2 + 1 ELSE s2
             s4 == IF validation.hasSpecialChar THEN s3 + 1 ELSE s3
         IN  Min(s4, MaxStrength)

\* the characters \s matches and trim() removes, among those of the inputs
Whitespace == {" ", "\t", "\n", "\r", "\f"}

\* str.trim()
RECURSIVE TrimStart(_)
TrimStart(str) ==
    IF str # << >> /\ Head(str) \in Whitespace THEN TrimStart(Tail(str)) ELSE str

RECURSIVE TrimEnd(_)
TrimEnd(str) ==
    IF str # << >> /\ str[Len(str)] \in Whitespace
    THEN TrimEnd(SubSeq(str, 1, Len(str) - 1)) ELSE str

Trim(str) == TrimEnd(TrimStart(str))

\* the same test without the '.' of the domain
IsValidEmail_NoDot(email) ==
    \E i \in 1..Len(email) :
       /\ 1 < i /\ i < Len(email)
       /\ email[i] = "@"
       /\ \A k \in (1..Len(email)) \ {i} :
             email[k] \notin Whitespace \cup {"@"}

\* /^[^\s@]+@[^\s@]+\.[^\s@]+$/.test(email)
IsValidEmail(email) ==
    \E i, j \in 1..Len(email) :
       /\ 1 < i /\ i + 1 < j /\ j < Len(email)
       /\ email[i] = "@" /\ email[j] = "."
       /\ \A k \in (1..Len(email)) \ {i} :
             email[k] \notin Whitespace \cup {"@"}

MinNameLength == 2

IsValidName(name) == Len(Trim(name)) >= MinNameLength

\* an errors object: the set of its <<key, message>> entries
NoErrors == {}
WithError(errors, key, msg) ==
    {e \in errors : e[1] # key} \cup {<<key, msg>>}

FormResult(errors) == [errors |-> errors, isValid |-> errors = NoErrors]

\* variant: the email is tested for emptiness without trimming it
ValidateLoginForm_NoTrim(email, password) ==
    LET e1 == IF email = << >>
              THEN WithError(NoErrors, "email", "Email is required")
              ELSE IF ~IsValidEmail(email)
              THEN WithError(NoErrors, "email", "Please enter a valid email")
              ELSE NoErrors
        e2 == IF password = << >>
              THEN WithError(e1, "password", "Password is required")
              ELSE e1
    IN  FormResult(e2)

ValidateLoginForm(email, password) ==
    LET e1 == IF Trim(email) = << >>
              THEN WithError(NoErrors, "email", "Email is required")
              ELSE IF ~IsValidEmail(email)
              THEN WithError(NoErrors, "email", "Please enter a valid email")
              ELSE NoErrors
        e2 == IF password = << >>
              THEN WithError(e1, "password", "Password is required")
              ELSE e1
    IN  FormResult(e2)

\* variant: the password's length is tested before its presence
ValidateSignUpForm_LengthFirst(email, password, name) ==
    LET e1 == IF Trim(email) = << >>
              THEN WithError(NoErrors, "email", "Email is required")
              ELSE IF ~IsValidEmail(email)
              THEN WithError(NoErrors, "email", "Please enter a valid email")
              ELSE NoErrors
        e2 == IF Len(password) < MinPasswordLength
              THEN WithError(e1, "password",
                             "Password must be at least 8 characters")
              ELSE IF password = << >>
              THEN WithError(e1, "password", "Password is required")
              ELSE e1
        e3 == IF Trim(name) = << >>
              THEN WithError(e2, "name", "Name is required")
              ELSE IF ~IsValidName(name)
              THEN WithError(e2, "name", "Name must be at least 2 characters")
              ELSE e2
    IN  FormResult(e3)

ValidateSignUpForm(email, password, name) ==
    LET e1 == IF Trim(email) = << >>
              THEN WithError(NoErrors, "email", "Email is required")
              ELSE IF ~IsValidEmail(email)
              THEN WithError(NoErrors, "email", "Please enter a valid email")
              ELSE NoErrors
        e2 == IF password = << >>
              THEN WithError(e1, "password", "Password is required")
              ELSE IF Len(password) < MinPasswordLength
              THEN WithError(e1, "password",
                             "Password must be at least 8 characters")
              ELSE e1
        e3 == IF Trim(name) = << >>
              THEN WithError(e2, "name", "Name is required")
              ELSE IF ~IsValidName(name)
              THEN WithError(e2, "name", "Name must be at least 2 characters")
              ELSE e2
    IN  FormResult(e3)

(***************************************************************************)
(* getPasswordStrength applied to a password: a run of characters of no    *)
(* class, one short of the required length or empty, followed by up to     *)
(* MaxTail characters, one of each class and one of none.                  *)
(***************************************************************************)
MaxTail == 4

PasswordChars == {"a", "Z", "7", "#", "~"}
Tails == UNION {[1..k -> PasswordChars] : k \in 0..MaxTail}
Padding == [i \in 1..(MinPasswordLength - 1) |-> "~"]
Passwords == {pad \o tail : pad \in {<< >>, Padding}, tail \in Tails}

NotReturned == [returned |-> FALSE, strength |-> 0]
Returned(n) == [returned |-> TRUE, strength |-> n]

authVars == <<user, isLoading, value, store, boot, ops, overlapped, delivered>>

PasswordInit ==
    /\ AuthInit
    /\ store = EmptyStore
    /\ screen = NoScreen
    /\ input \in Passwords
    /\ output = NotReturned

CallGetPasswordStrength ==
    /\ ~output.returned
    /\ output' = Returned(GetPasswordStrength(input))
    /\ UNCHANGED <<authVars, screen, input>>

PasswordNext == CallGetPasswordStrength

PasswordSpec == PasswordInit /\ [][PasswordNext]_vars

(***************************************************************************)
(* The screens.  One screen is on display; the text of its fields is       *)
(* whatever the user has typed when a button is pressed.  An alert is a    *)
(* modal dialog: no touch reaches the screen until it is dismissed.        *)
(***************************************************************************)
MaxTimers == 1     \* timers of handlePasswordReset pending at once

EmailOk == <<"a", "@", "b", ".", "c">>
EmailBlank == <<" ">>

LoginForms ==
    { <<EmailOk, PasswordOk>>,
      <<EmailTwoAt, PasswordOk>>,
      <<EmailBlank, << >> >> }

\* name, email, password, confirmPassword, agreedToTerms
SignUpForms ==
    { <<NameAnn, EmailOk, PasswordOk, PasswordOk, TRUE>>,
      <<NameAnn, EmailOk, PasswordOk, PasswordOk, FALSE>>,
      <<NameAnn, EmailOk, PasswordOk, PasswordShort, TRUE>>,
      <<<<"A">>, EmailOk, PasswordShort, PasswordShort, TRUE>>,
      <<<<"A">>, EmailOk, PasswordShort, PasswordOk, TRUE>> }

ResetEmails == {EmailOk, EmailTwoAt, EmailBlank}

CodeLength == 6
CodeOk == <<"1", "2", "3", "4", "5", "6">>
CodeBlank == [i \in 1..CodeLength |-> " "]
Codes == {CodeOk, CodeBlank, <<"1">>, << >>}

\* newPassword, confirmPassword
NewPasswords ==
    { <<PasswordOk, PasswordOk>>,
      <<PasswordOk, PasswordShort>>,
      <<PasswordShort, PasswordShort>>,
      <<<< >>, << >> >> }

Screen(errors, route, step, below, alerts, timers, live) ==
    [errors |-> errors, route |-> route, step |-> step, below |-> below,
     alerts |-> alerts, timers |-> timers, live |-> live]

\* Alert.alert(title, message, [{text: 'OK', onPress}])
Alert(title, message, onPress) ==
    [title |-> title, message |-> message, onPress |-> onPress]

\* a screen as router.push mounts it
Pushed(route, sc) ==
    Screen(NoErrors, route, "email",
           IF route = "forgot-password" THEN sc.errors ELSE NoErrors,
           sc.alerts, sc.timers, FALSE)

\* the callbacks of a forgot-password screen that is gone set no visible state
Detached(alerts) ==
    [i \in 1..Len(alerts) |->
        IF alerts[i].onPress = "setStep"
        THEN Alert(alerts[i].title, alerts[i].message, "none")
        ELSE alerts[i]]

\* variant: the button ignores its disabled and loading props
IsDisabled_Never(disabled, loading) == FALSE

\* Button: const isDisabled = disabled || loading
IsDisabled(disabled, loading) == disabled \/ loading

\* the press of a <Button loading={isLoading} disabled={isLoading}> is taken
Pressable ==
    /\ screen.alerts = << >>
    /\ ~IsDisabled(value.isLoading, value.isLoading)

\* a step of the screens alone
ScreenOnly ==
    /\ delivered' = Nothing
    /\ UNCHANGED <<user, isLoading, value, store, boot, ops, overlapped>>
    /\ UNCHANGED <<input, output>>

UIInit ==
    /\ AuthInit
    /\ screen = Screen(NoErrors, "login", "email", NoErrors, << >>, 0, FALSE)
    /\ input = NoInput
    /\ output = NoOutput

(***************************************************************************)
(* LoginScreen                                                             *)
(***************************************************************************)
LoginScreen_HandleLogin(email, password) ==
    /\ screen.route = "login" /\ Pressable
    /\ LET form == ValidateLoginForm(email, password)
       IN  IF ~form.isValid
           THEN /\ screen' = [screen EXCEPT !.errors = form.errors]
                /\ ScreenOnly
           ELSE /\ screen' = [screen EXCEPT !.errors = NoErrors]
                /\ Call(Op("login", "timer", email, password, << >>, NoUser, << >>))
                /\ UNCHANGED <<input, output>>

LoginScreen_HandleForgotPassword ==
    /\ screen.route = "login" /\ screen.alerts = << >>
    /\ screen' = Pushed("forgot-password", screen)
    /\ ScreenOnly

LoginScreen_HandleSignUp ==
    /\ screen.route = "login" /\ screen.alerts = << >>
    /\ screen' = Pushed("sign-up", screen)
    /\ ScreenOnly

(***************************************************************************)
(* SignUpScreen                                                            *)
(***************************************************************************)
\* variant: the terms checkbox is not consulted
SignUpScreen_HandleSignUp_NoTerms(name, email, password, confirmPassword, agreedToTerms) ==
    /\ screen.route = "sign-up" /\ Pressable
    /\ LET form == ValidateSignUpForm(email, password, name)
       IN  IF ~form.isValid
           THEN /\ screen' = [screen EXCEPT !.errors = form.errors]
                /\ ScreenOnly
           ELSE IF password # confirmPassword
           THEN /\ screen' = [screen EXCEPT !.errors =
                        WithError(screen.errors, "confirmPassword",
                                  "Passwords do not match")]
                /\ ScreenOnly
           ELSE /\ screen' = [screen EXCEPT !.errors = NoErrors]
                /\ Call(Op("signUp", "timer", email, password, name, NoUser, << >>))
                /\ UNCHANGED <<input, output>>

SignUpScreen_HandleSignUp(name, email, password, confirmPassword, agreedToTerms) ==
    /\ screen.route = "sign-up" /\ Pressable
    /\ LET form == ValidateSignUpForm(email, password, name)
       IN  IF ~form.isValid
           THEN /\ screen' = [screen EXCEPT !.errors = form.errors]
                /\ ScreenOnly
           ELSE IF password # confirmPassword
           THEN /\ screen' = [screen EXCEPT !.errors =
                        WithError(screen.errors, "confirmPassword",
                                  "Passwords do not match")]
                /\ ScreenOnly
           ELSE IF ~agreedToTerms
           THEN /\ screen' = [screen EXCEPT !.alerts =
                        Append(screen.alerts,
                               Alert("Terms Required",
                                     "Please agree to the terms and conditions to continue.",
                                     "none"))]
                /\ ScreenOnly
           ELSE /\ screen' = [screen EXCEPT !.errors = NoErrors]
                /\ Call(Op("signUp", "timer", email, password, name, NoUser, << >>))
                /\ UNCHANGED <<input, output>>

SignUpScreen_HandleLogin ==
    /\ screen.route = "sign-up" /\ screen.alerts = << >>
    /\ screen' = Pushed("login", screen)
    /\ ScreenOnly

(***************************************************************************)
(* ForgotPasswordScreen                                                    *)
(***************************************************************************)
\* variant: the email is only tested for emptiness before resetPassword
HandleEmailSubmit_AnyEmail(email) ==
    /\ screen.route = "forgot-password" /\ screen.step = "email" /\ Pressable
    /\ IF Trim(email) = << >>
       THEN /\ screen' = [screen EXCEPT !.errors =
                    WithError(NoErrors, "email", "Email is required")]
            /\ ScreenOnly
       ELSE /\ screen' = [screen EXCEPT !.errors = NoErrors, !.live = TRUE]
            /\ Call(Op("resetPassword", "timer", email, << >>, << >>, NoUser, << >>))
            /\ UNCHANGED <<input, output>>

HandleEmailSubmit(email) ==
    /\ screen.route = "forgot-password" /\ screen.step = "email" /\ Pressable
    /\ IF Trim(email) = << >>
       THEN /\ screen' = [screen EXCEPT !.errors =
                    WithError(NoErrors, "email", "Email is required")]
            /\ ScreenOnly
       ELSE IF ~IsValidEmail(email)
       THEN /\ screen' = [screen EXCEPT !.errors =
                    WithError(NoErrors, "email", "Please enter a valid email")]
            /\ ScreenOnly
       ELSE /\ screen' = [screen EXCEPT !.errors = NoErrors, !.live = TRUE]
            /\ Call(Op("resetPassword", "timer", email, << >>, << >>, NoUser, << >>))
            /\ UNCHANGED <<input, output>>

\* variant: the length of the code is not tested
HandleVerificationSubmit_AnyLength(verificationCode) ==
    /\ screen.route = "forgot-password" /\ screen.step = "verification"
    /\ Pressable
    /\ IF Trim(verificationCode) = << >>
       THEN screen' = [screen EXCEPT !.errors =
                WithError(NoErrors, "code", "Verification code is required")]
       ELSE screen' = [screen EXCEPT !.errors = NoErrors, !.step = "reset"]
    /\ ScreenOnly

HandleVerificationSubmit(verificationCode) ==
    /\ screen.route = "forgot-password" /\ screen.step = "verification"
    /\ Pressable
    /\ IF Trim(verificationCode) = << >>
       THEN screen' = [screen EXCEPT !.errors =
                WithError(NoErrors, "code", "Verification code is required")]
       ELSE IF Len(verificationCode) # CodeLength
       THEN screen' = [screen EXCEPT !.errors =
                WithError(NoErrors, "code", "Verification code must be 6 digits")]
       ELSE screen' = [screen EXCEPT !.errors = NoErrors, !.step = "reset"]
    /\ ScreenOnly

HandlePasswordReset(newPassword, confirmPassword) ==
    /\ screen.route = "forgot-password" /\ screen.step = "reset" /\ Pressable
    /\ IF newPassword = << >>
       THEN screen' = [screen EXCEPT !.errors =
                WithError(NoErrors, "password", "Password is required")]
       ELSE IF Len(newPassword) < MinPasswordLength
       THEN screen' = [screen EXCEPT !.errors =
                WithError(NoErrors, "password",
                          "Password must be at least 8 characters")]
       ELSE IF newPassword # confirmPassword
       THEN screen' = [screen EXCEPT !.errors =
                WithError(NoErrors, "confirmPassword", "Passwords do not match")]
       ELSE /\ screen.timers < MaxTimers
            /\ screen' = [screen EXCEPT !.errors = NoErrors,
                                        !.timers = screen.timers + 1]
    /\ ScreenOnly

\* the timer of handlePasswordReset fires
PasswordResetAfterTimer ==
    /\ screen.timers > 0
    /\ screen' = [screen EXCEPT
           !.timers = screen.timers - 1,
           !.alerts = Append(screen.alerts,
               Alert("Success",
                     "Your password has been reset. Please log in again.",
                     "pushLogin"))]
    /\ ScreenOnly

\* the back link: router.back() returns to the login screen underneath
HandleBack ==
    /\ screen.route = "forgot-password" /\ screen.alerts = << >>
    /\ screen' = Screen(screen.below, "login", "email", NoErrors,
                        Detached(screen.alerts), screen.timers, FALSE)
    /\ ScreenOnly

(***************************************************************************)
(* The user presses OK on the alert on display.                            *)
(***************************************************************************)
DismissAlert ==
    /\ screen.alerts # << >>
    /\ LET alert == Head(screen.alerts)
           rest == Tail(screen.alerts)
       IN  IF alert.onPress = "setStep"
           THEN screen' = [screen EXCEPT !.alerts = rest, !.step = "verification"]
           ELSE IF alert.onPress = "pushLogin"
           THEN screen' = Pushed("login", [screen EXCEPT !.alerts = Detached(rest)])
           ELSE screen' = [screen EXCEPT !.alerts = rest]
    /\ ScreenOnly

(***************************************************************************)
(* A step of the provider, and with it the rest of the handler that        *)
(* awaits the promise the step settles.                                    *)
(***************************************************************************)
AfterAwait(sc, settled) ==
    IF settled.who = "login" /\ settled.outcome = "rejected"
    THEN [sc EXCEPT !.alerts =
             Append(sc.alerts, Alert("Login Error", settled.error, "none"))]
    ELSE IF settled.who = "signUp" /\ settled.outcome = "rejected"
    THEN [sc EXCEPT !.alerts =
             Append(sc.alerts, Alert("Sign Up Error", settled.error, "none"))]
    ELSE IF settled.who = "resetPassword" /\ settled.outcome = "resolved"
    THEN [sc EXCEPT !.live = FALSE, !.alerts =
             Append(sc.alerts,
                    Alert("Check Your Email",
                          "We sent a verification code to your email address.",
                          IF sc.live THEN "setStep" ELSE "none"))]
    ELSE IF settled.who = "resetPassword" /\ settled.outcome = "rejected"
    THEN [sc EXCEPT !.live = FALSE, !.alerts =
             Append(sc.alerts, Alert("Error", settled.error, "none"))]
    ELSE sc

Resume ==
    /\ screen' = AfterAwait(screen, delivered')
    /\ UNCHANGED <<input, output>>

UINext ==
    \/ \E form \in LoginForms : LoginScreen_HandleLogin(form[1], form[2])
    \/ LoginScreen_HandleForgotPassword
    \/ LoginScreen_HandleSignUp
    \/ \E form \in SignUpForms :
          SignUpScreen_HandleSignUp(form[1], form[2], form[3], form[4], form[5])
    \/ SignUpScreen_HandleLogin
    \/ \E email \in ResetEmails : HandleEmailSubmit(email)
    \/ \E code \in Codes : HandleVerificationSubmit(code)
    \/ \E form \in NewPasswords : HandlePasswordReset(form[1], form[2])
    \/ PasswordResetAfterTimer
    \/ HandleBack
    \/ DismissAlert
    \/ \E op \in BagToSet(ops) : LoginAfterTimer(op) /\ Resume
    \/ \E op \in BagToSet(ops) : LoginAfterMultiSet(op) /\ Resume
    \/ \E op \in BagToSet(ops) : SignUpAfterTimer(op) /\ Resume
    \/ \E op \in BagToSet(ops) : SignUpAfterMultiSet(op) /\ Resume
    \/ \E op \in BagToSet(ops) : ResetPasswordAfterTimer(op) /\ Resume
    \/ \E op \in BagToSet(ops) : StorageMultiSet(op) /\ Resume
    \/ StorageGetItem /\ Resume
    \/ BootstrapAfterToken /\ Resume
    \/ BootstrapAfterUserData /\ Resume

UISpec == UIInit /\ [][UINext]_vars

(***************************************************************************)
(* isValidEmail applied to a string: every string of up to MaxEmailLen     *)
(* characters drawn from a letter, '@', '.' and a space, and the two       *)
(* addresses the documentation names.                                      *)
(***************************************************************************)
MaxEmailLen == 5

EmailChars == {"a", "@", ".", " "}
EmailNoDot == <<"a", "@", "b">>
EmailStrings ==
    UNION {[1..k -> EmailChars] : k \in 0..MaxEmailLen} \cup {EmailNoDot, EmailOk}

NotTested == [returned |-> FALSE, valid |-> FALSE]
Tested(b) == [returned |-> TRUE, valid |-> b]

EmailInit ==
    /\ AuthInit
    /\ store = EmptyStore
    /\ screen = NoScreen
    /\ input \in EmailStrings
    /\ output = NotTested

CallIsValidEmail ==
    /\ ~output.returned
    /\ output' = Tested(IsValidEmail(input))
    /\ UNCHANGED <<authVars, screen, input>>

EmailNext == CallIsValidEmail

EmailSpec == EmailInit /\ [][EmailNext]_vars

(***************************************************************************)
(* validateLoginForm and validateSignUpForm applied to the text of the     *)
(* fields: for each field an empty text, a blank one, texts that fail each *)
(* rule and one that passes them all.                                      *)
(***************************************************************************)
EmailPadded == <<" ", "a", "@", "b", ".", "c">>
FormEmails ==
    {<< >>, EmailBlank, EmailNoAt, EmailNoDot, EmailTwoAt, EmailPadded, EmailOk}
FormPasswords == {<< >>, <<" ">>, PasswordShort, PasswordOk}
FormNames == {<< >>, <<" ">>, <<"A">>, <<" ", "A", " ">>, <<"A", "n">>, NameAnn}

\* email, password, name
FormTexts == FormEmails \X FormPasswords \X FormNames

NotValidated ==
    [errors |-> NoErrors, isValid |-> FALSE, returned |-> FALSE,
     validator |-> "none"]
Validated(validator, form) ==
    [errors |-> form.errors, isValid |-> form.isValid, returned |-> TRUE,
     validator |-> validator]

FormInit ==
    /\ AuthInit
    /\ store = EmptyStore
    /\ screen = NoScreen
    /\ input \in FormTexts
    /\ output = NotValidated

CallValidateLoginForm ==
    /\ ~output.returned
    /\ output' = Validated("validateLoginForm",
                           ValidateLoginForm(input[1], input[2]))
    /\ UNCHANGED <<authVars, screen, input>>

CallValidateSignUpForm ==
    /\ ~output.returned
    /\ output' = Validated("validateSignUpForm",
                           ValidateSignUpForm(input[1], input[2], input[3]))
    /\ UNCHANGED <<authVars, screen, input>>

FormNext ==
    \/ CallValidateLoginForm
    \/ CallValidateSignUpForm

FormSpec == FormInit /\ [][FormNext]_vars

(***************************************************************************)
(* The provider over a store whose every call succeeds: no getItem         *)
(* rejects, no multiSet or multiRemove fails.                              *)
(***************************************************************************)
NoFailure ==
    /\ \A op \in BagToSet(ops) : op.pc # "failed"
    /\ boot.token # JsRejected
    /\ boot.userData # JsRejected

SuccessNext ==
    \/ \E args \in LoginInputs : Login(args[1], args[2]) /\ UNCHANGED others
    \/ \E args \in SignUpInputs : SignUp(args[1], args[2], args[3]) /\ UNCHANGED others
    \/ Logout /\ UNCHANGED others
    \/ \E e \in Emails : ResetPassword(e) /\ UNCHANGED others
    \/ \E op \in BagToSet(ops) : LoginAfterTimer(op) /\ UNCHANGED others
    \/ \E op \in BagToSet(ops) : LoginAfterMultiSet(op) /\ UNCHANGED others
    \/ \E op \in BagToSet(ops) : SignUpAfterTimer(op) /\ UNCHANGED others
    \/ \E op \in BagToSet(ops) : SignUpAfterMultiSet(op) /\ UNCHANGED others
    \/ \E op \in BagToSet(ops) : LogoutAfterMultiRemove(op) /\ UNCHANGED others
    \/ \E op \in BagToSet(ops) : ResetPasswordAfterTimer(op) /\ UNCHANGED others
    \/ \E op \in BagToSet(ops) :
          StorageMultiSet(op) /\ NoFailure' /\ UNCHANGED others
    \/ \E op \in BagToSet(ops) :
          StorageMultiRemove(op) /\ NoFailure' /\ UNCHANGED others
    \/ StorageGetItem /\ NoFailure' /\ UNCHANGED others
    \/ BootstrapAfterToken /\ UNCHANGED others
    \/ BootstrapAfterUserData /\ UNCHANGED others
    \/ Mount /\ UNCHANGED others

SuccessSpec == Init /\ [][SuccessNext]_vars

(***************************************************************************)
(* The provider called with the text of a form, by a caller that waits for *)
(* each call to settle: login(email, password), signUp(email, password,    *)
(* name) and resetPassword(email) on the same texts the validators of the  *)
(* screens are applied to.                                                 *)
(***************************************************************************)
PreCheckInit ==
    /\ AuthInit
    /\ store = EmptyStore
    /\ screen = NoScreen
    /\ input \in FormTexts
    /\ output = NoOutput

PreCheckNext ==
    \/ ~InFlight /\ Call(Op("login", "timer", input[1], input[2], << >>,
                            NoUser, << >>))
                 /\ UNCHANGED others
    \/ ~InFlight /\ Call(Op("signUp", "timer", input[1], input[2], input[3],
                            NoUser, << >>))
                 /\ UNCHANGED others
    \/ ~InFlight /\ Call(Op("resetPassword", "timer", input[1], << >>, << >>,
                            NoUser, << >>))
                 /\ UNCHANGED others
    \/ \E op \in BagToSet(ops) : LoginAfterTimer(op) /\ UNCHANGED others
    \/ \E op \in BagToSet(ops) : LoginAfterMultiSet(op) /\ UNCHANGED others
    \/ \E op \in BagToSet(ops) : SignUpAfterTimer(op) /\ UNCHANGED others
    \/ \E op \in BagToSet(ops) : SignUpAfterMultiSet(op) /\ UNCHANGED others
    \/ \E op \in BagToSet(ops) : ResetPasswordAfterTimer(op) /\ UNCHANGED others
    \/ \E op \in BagToSet(ops) : StorageMultiSet(op) /\ UNCHANGED others
    \/ StorageGetItem /\ UNCHANGED others
    \/ BootstrapAfterToken /\ UNCHANGED others
    \/ BootstrapAfterUserData /\ UNCHANGED others

PreCheckSpec == PreCheckInit /\ [][PreCheckNext]_vars

(***************************************************************************)
(* The password-strength indicator of the sign-up screen, rendered for a   *)
(* password typed into the field.                                          *)
(***************************************************************************)
\* width: `${(passwordStrength + 1) * 25}%`
StrengthFillWidth(passwordStrength) == (passwordStrength + 1) * 25

NotRendered == [rendered |-> FALSE, shown |-> FALSE, width |-> 0]

\* {password.length > 0 && (<View style={styles.strengthSection}> ...)}
StrengthSection(password) ==
    [rendered |-> TRUE, shown |-> Len(password) > 0,
     width |-> StrengthFillWidth(GetPasswordStrength(password))]

StrengthBarInit ==
    /\ AuthInit
    /\ store = EmptyStore
    /\ screen = NoScreen
    /\ input \in Passwords
    /\ output = NotRendered

RenderStrengthSection ==
    /\ ~output.rendered
    /\ output' = StrengthSection(input)
    /\ UNCHANGED <<authVars, screen, input>>

StrengthBarNext == RenderStrengthSection

StrengthBarSpec == StrengthBarInit /\ [][StrengthBarNext]_vars

(***************************************************************************)
(* Properties.                                                             *)
(***************************************************************************)
OpKinds == {"login", "signUp", "logout", "resetPassword"}

\* this step issues an operation
Issues == BagCardinality(ops') > BagCardinality(ops)

\* this step is one of op's own: op leaves the bag and the provider stays
Leaves(op) == CopiesIn(op, ops') < CopiesIn(op, ops) /\ delivered' # Mounted

\* this step takes op to the state next
Becomes(op, next) ==
    Leaves(op) /\ CopiesIn(next, ops') > CopiesIn(next, ops)

\* the users login and signUp can create from the inputs
UsersCreated ==
    {UserObject(id, e, n) :
        id \in Ids, e \in {EmailTwoAt, EmailNoAt},
        n \in {NameAnn, <<"a">>, EmailNoAt}}

\* n is what precedes the first '@' of e, or all of e when e has no '@'
IsLocalPart(n, e) ==
    /\ \A i \in 1..Len(n) : n[i] # "@"
    /\ Len(n) <= Len(e)
    /\ SubSeq(e, 1, Len(n)) = n
    /\ Len(n) < Len(e) => e[Len(n) + 1] = "@"

\* C1: the exposed isSignedIn is true exactly when the exposed currentUser is
\* present, and the exposed currentUser is the manager's current user.
C1_SignedInIffUser ==
    /\ value.user = user
    /\ value.isSignedIn <=> (value.user # NoUser)

C1_Witness ==
    /\ value.isSignedIn /\ user.t = "object"
    /\ delivered = Resolved("signUp")

\* C2: whenever bootstrap or an operation has started and not yet resolved,
\* isLoading is true.
C2_LoadingWhileInFlight == InFlight => value.isLoading

\* C3: an operation sets isLoading at entry, and the step that settles its
\* promise, resolved or rejected, leaves isLoading false.
C3_LoadingBracket ==
    [][ /\ Issues => isLoading' /\ value'.isLoading
        /\ delivered'.who \in OpKinds => ~isLoading' /\ ~value'.isLoading
        /\ \A op \in BagToSet(ops) :
              (Leaves(op) /\ BagCardinality(ops') < BagCardinality(ops))
                 => delivered'.who = op.kind /\ ~isLoading' ]_vars

C3_Witness ==
    /\ delivered.who = "signUp" /\ delivered.outcome = "rejected"
    /\ delivered.error = "storage"
    /\ ~isLoading /\ ops = EmptyBag /\ boot.pc = "done"

\* C4: a bootstrap that ran alone over a store whose read failed, or that
\* lacks the token or the user data, or whose user data does not parse, ends
\* with no user, not signed in, not loading, and its promise resolved.
BadSession ==
    \/ boot.token = JsRejected
    \/ boot.userData = JsRejected
    \/ store.authToken = JsNull
    \/ store.userData = JsNull
    \/ (store.userData.t = "string" /\ JSONParse(store.userData.s).threw)

C4_FailClosed ==
    [][ (boot.pc # "done" /\ boot'.pc = "done" /\ ~overlapped /\ BadSession)
           => /\ user' = NoUser
              /\ ~value'.isSignedIn
              /\ ~isLoading' /\ ~value'.isLoading
              /\ delivered' = Resolved("bootstrap") ]_vars

C4_Witness ==
    /\ boot.pc = "done" /\ ~overlapped /\ ops = EmptyBag
    /\ delivered = Resolved("bootstrap")
    /\ store.authToken.t = "string"
    /\ store.userData = JsString(TextCorrupt)
    /\ user = NoUser /\ ~isLoading

\* C5: a bootstrap that ran alone, with both reads answered, over a token and
\* user data written by login or signUp ends signed in, not loading, with the
\* id, email and name of the persisted user; bootstrap never writes the store
\* and no operation was issued.
WrittenSession ==
    /\ store.authToken = JsString(MockToken)
    /\ \E u \in UsersCreated : store.userData = JsString(JSONStringify(u))

C5_RestoreRoundTrip ==
    [][ /\ (boot' # boot /\ boot'.pc # "getToken") => store' = store
        /\ ( /\ boot.pc = "gotUserData" /\ boot'.pc = "done" /\ ~overlapped
             /\ boot.token # JsRejected /\ boot.userData # JsRejected
             /\ WrittenSession )
           => /\ \A u \in UsersCreated :
                    store.userData = JsString(JSONStringify(u))
                       => /\ user'.t = "object"
                          /\ user'.id = u.id
                          /\ user'.email = u.email
                          /\ user'.name = u.name
              /\ value'.isSignedIn
              /\ ~isLoading' /\ ~value'.isLoading
              /\ ops = EmptyBag /\ ops' = EmptyBag
              /\ store' = store ]_vars

C5_Witness ==
    /\ boot.pc = "done" /\ ~overlapped /\ ops = EmptyBag
    /\ delivered = Resolved("bootstrap")
    /\ WrittenSession
    /\ user \in UsersCreated
    /\ store.userData = JsString(JSONStringify(user))
    /\ value.isSignedIn /\ ~isLoading

\* C6: the step of a login called with an empty email or an empty password
\* that follows its timer rejects the promise, issues no store write and
\* changes neither the store nor currentUser; the call itself changes neither.
C6_LoginValidation ==
    [][ /\ Issues => user' = user /\ store' = store
        /\ \A op \in BagToSet(ops) :
              ( /\ op.kind = "login" /\ op.pc = "timer"
                /\ (op.email = << >> \/ op.password = << >>)
                /\ Leaves(op) )
                 => /\ delivered'.who = "login"
                    /\ delivered'.outcome = "rejected"
                    /\ store' = store
                    /\ user' = user
                    /\ BagCardinality(ops') < BagCardinality(ops) ]_vars

C6_Witness ==
    /\ delivered = Rejected("login", "Email and password are required")
    /\ user.t = "object" /\ ~overlapped

\* C7: the step of a signUp called with an empty email, password or name, or
\* with a password shorter than 8, that follows its timer rejects the
\* promise, issues no store write and changes neither the store nor
\* currentUser.
C7_SignUpValidation ==
    [][ \A op \in BagToSet(ops) :
          ( /\ op.kind = "signUp" /\ op.pc = "timer"
            /\ \/ op.email = << >> \/ op.password = << >> \/ op.name = << >>
               \/ Len(op.password) < 8
            /\ Leaves(op) )
             => /\ delivered'.who = "signUp"
                /\ delivered'.outcome = "rejected"
                /\ store' = store
                /\ user' = user
                /\ BagCardinality(ops') < BagCardinality(ops) ]_vars

C7_Witness ==
    /\ delivered = Rejected("signUp", "Password must be at least 8 characters")
    /\ user.t = "object" /\ ~overlapped

\* C8: the store write of a login or signUp puts a token and the serialized
\* user under the two keys; the promise resolves only after that write, and
\* the resolving step sets currentUser to the written user, whose email is
\* the one given and whose name is the one given (signUp) or what precedes
\* the first '@' of the email (login); isSignedIn is then true.
C8_SuccessPersistsThenSets ==
    [][ /\ \A op \in BagToSet(ops) :
              (op.pc = "multiSet"
                  /\ Becomes(op, [op EXCEPT !.pc = "setDone", !.token = << >>]))
                 => /\ Truthy(store'.authToken)
                    /\ store'.userData = JsString(JSONStringify(op.mockUser))
        /\ \A op \in BagToSet(ops) :
              (op.kind \in {"login", "signUp"} /\ op.pc = "setDone" /\ Leaves(op))
                 => /\ delivered' = Resolved(op.kind)
                    /\ user' = op.mockUser
                    /\ user'.t = "object"
                    /\ user'.email = op.email
                    /\ op.kind = "signUp" => user'.name = op.name
                    /\ op.kind = "login" => IsLocalPart(user'.name, op.email)
                    /\ value'.isSignedIn
        /\ (delivered'.who \in {"login", "signUp"}
               /\ delivered'.outcome = "resolved")
              => \E op \in BagToSet(ops) :
                    op.kind = delivered'.who /\ op.pc = "setDone" /\ Leaves(op)
      ]_vars

C8_Witness ==
    /\ delivered = Resolved("login")
    /\ user.t = "object" /\ user.email = EmailTwoAt /\ user.name = <<"a">>
    /\ store.userData = JsString(JSONStringify(user))
    /\ value.isSignedIn

\* C9: the store removal of a logout leaves neither key in the store; the
\* step that resolves a logout leaves currentUser absent and isSignedIn
\* false, and when the logout ran alone the store then holds neither key.
C9_LogoutClears ==
    [][ /\ \A op \in BagToSet(ops) :
              (op.pc = "multiRemove"
                  /\ Becomes(op, [op EXCEPT !.pc = "removeDone"]))
                 => store' = EmptyStore
        /\ \A op \in BagToSet(ops) :
              (op.kind = "logout" /\ op.pc = "removeDone" /\ Leaves(op))
                 => /\ delivered' = Resolved("logout")
                    /\ user' = NoUser
                    /\ ~value'.isSignedIn
                    /\ ~overlapped => store' = EmptyStore
        /\ (delivered'.who = "logout" /\ delivered'.outcome = "resolved")
              => \E op \in BagToSet(ops) :
                    op.kind = "logout" /\ op.pc = "removeDone" /\ Leaves(op)
      ]_vars

C9_Witness ==
    /\ \E op \in BagToSet(ops) : op.kind = "logout" /\ op.pc = "removeDone"
    /\ ~overlapped /\ boot.pc = "done"
    /\ user.t = "object" /\ user.name = NameAnn
    /\ store = EmptyStore

\* C10: the step that rejects a logout whose store removal failed clears
\* currentUser, so that isSignedIn is false after it.
C10_FailedLogoutClears ==
    [][ \A op \in BagToSet(ops) :
          (op.kind = "logout" /\ op.pc = "failed" /\ Leaves(op))
             => /\ delivered'.who = "logout"
                /\ delivered'.outcome = "rejected"
                /\ user' = NoUser
                /\ ~value'.isSignedIn ]_vars

\* C11: an operation that ran with nothing else outstanding and was rejected,
\* by its validation or by a failed store write or removal, leaves isLoading
\* false and currentUser as it was when the operation was called: the call
\* and every step up to and including the rejecting one keep currentUser.
C11_FailureRestores ==
    [][ /\ Issues => user' = user
        /\ (ops # EmptyBag /\ ~overlapped' /\ delivered' # Mounted
               /\ delivered'.outcome # "resolved")
              => user' = user
        /\ (delivered'.who \in OpKinds /\ delivered'.outcome = "rejected"
               /\ ~overlapped')
              => /\ user' = user /\ value'.user = user
                 /\ ~isLoading' /\ ~value'.isLoading ]_vars

C11_Witness ==
    /\ delivered = Rejected("logout", "storage")
    /\ ~overlapped /\ ops = EmptyBag /\ boot.pc = "done"
    /\ user.t = "object" /\ value.isSignedIn
    /\ ~isLoading

\* C12: the call of resetPassword and the step that resolves or rejects it,
\* from any state and whatever else is outstanding, leave currentUser,
\* isSignedIn and both keys of the store as they were.
C12_ResetPasswordFrame ==
    [][ \A op \in BagToSet(ops) \cup BagToSet(ops') :
          ( /\ op.kind = "resetPassword"
            /\ CopiesIn(op, ops') # CopiesIn(op, ops)
            /\ delivered' # Mounted )
             => /\ user' = user
                /\ store' = store
                /\ value'.user = value.user
                /\ value'.isSignedIn = value.isSignedIn ]_vars

C12_Witness ==
    /\ delivered = Resolved("resetPassword")
    /\ user.t = "object" /\ value.isSignedIn
    /\ WrittenSession
    /\ ~isLoading

\* the store holds the token exactly when it holds the user data
Paired(st) == (st.authToken = JsNull) <=> (st.userData = JsNull)

\* C13: from a store that holds both keys or neither, no step of login,
\* signUp, logout, resetPassword or bootstrap, in any interleaving, leads to
\* a store that holds one key without the other.
C13_KeysPaired == [][ Paired(store) => Paired(store') ]_vars

C13_Witness ==
    /\ delivered = Resolved("login")
    /\ store.authToken # JsNull /\ store.userData # JsNull
    /\ WrittenSession
    /\ overlapped

\* C15: with timers firing and the store answering, an outstanding login,
\* signUp, logout or resetPassword leads to the settlement of a call of its
\* kind, the bootstrap read leads to its completion, an operation leaves
\* only by settling, and once no further call is made nothing stays
\* outstanding and isLoading stays false.
C15_RunsToCompletion ==
    /\ \A k \in OpKinds :
          (\E op \in BagToSet(ops) : op.kind = k)
             ~> (delivered.who = k /\ delivered.outcome \in {"resolved", "rejected"})
    /\ (boot.pc # "done") ~> (boot.pc = "done" /\ delivered = Resolved("bootstrap"))
    /\ [][ BagCardinality(ops') < BagCardinality(ops)
              => \E op \in BagToSet(ops) : Leaves(op) /\ delivered'.who = op.kind ]_vars
    /\ <>[][~Issues]_vars => <>[](~InFlight /\ ~isLoading)

C15_Witness ==
    /\ delivered = Rejected("logout", "storage")
    /\ ~InFlight /\ ~isLoading
    /\ overlapped

\* C16: a provider that has just mounted is loading and has no user; in
\* every state in which bootstrap has completed and no operation is
\* outstanding isLoading is false, also when operations overlapped bootstrap
\* or one another on the way.
C16_NotLoadingAtRest ==
    /\ delivered = Mounted => isLoading /\ value.isLoading /\ user = NoUser
    /\ ~InFlight => ~isLoading /\ ~value.isLoading

C16_Witness ==
    /\ overlapped /\ ~InFlight
    /\ delivered = Resolved("bootstrap")
    /\ user.t = "object"
    /\ ~isLoading

BootRank(pc) ==
    CASE pc = "getToken" -> 0
      [] pc = "gotToken" -> 1
      [] pc = "getUserData" -> 2
      [] pc = "gotUserData" -> 3
      [] pc = "done" -> 4

\* C18: the bootstrap read is outstanding from its first request when the
\* provider has just mounted; within the lifetime of a provider no step, of
\* an operation or of bootstrap itself, starts it again or takes it back.
C18_BootstrapOnce ==
    /\ [](delivered = Mounted => boot.pc = "getToken")
    /\ [][ delivered' # Mounted
              => /\ BootRank(boot'.pc) >= BootRank(boot.pc)
                 /\ boot.pc = "done" => boot' = boot ]_vars

C18_Witness ==
    /\ boot.pc = "done" /\ ~overlapped
    /\ delivered = Resolved("login")
    /\ user.t = "object" /\ value.isSignedIn

\* C19: the user a resolving login or signUp creates has an id other than
\* that of the current user, whom an earlier call created.
C19_UniqueIds ==
    [][ ( /\ delivered'.who \in {"login", "signUp"}
          /\ delivered'.outcome = "resolved"
          /\ user.t = "object" )
           => user'.id # user.id ]_vars

\* the conditions a password meets, each worth a point
ConditionsMet(p) ==
    {c \in {"length", "case", "digit", "special"} :
        \/ c = "length" /\ Len(p) >= 8
        \/ c = "case" /\ (\E i \in 1..Len(p) : p[i] \in UpperCase)
                      /\ (\E i \in 1..Len(p) : p[i] \in LowerCase)
        \/ c = "digit" /\ (\E i \in 1..Len(p) : p[i] \in Digits)
        \/ c = "special" /\ (\E i \in 1..Len(p) : p[i] \in SpecialChars)}

\* C20: what getPasswordStrength returns is an integer from 0 to 4; it is 0
\* for the empty password and otherwise the number of conditions met among
\* length at least 8, an upper-case together with a lower-case letter, a
\* digit, and a special character.
C20_PasswordStrength ==
    output.returned =>
       /\ output.strength \in 0..4
       /\ input = << >> => output.strength = 0
       /\ input # << >> => output.strength = Cardinality(ConditionsMet(input))

C20_Witness ==
    /\ output.returned
    /\ Len(input) > 8
    /\ \E i \in 1..Len(input) : input[i] = "Z"
    /\ ~ \E i \in 1..Len(input) : input[i] = "a"
    /\ \E i \in 1..Len(input) : input[i] = "7"
    /\ output.strength = 2

\* C14: when the operations are called only by the submit buttons of the
\* screens, a call is made only while bootstrap is complete, no operation is
\* outstanding and the rendered isLoading is false; so at most one operation
\* is outstanding at a time, and none while bootstrap is.
C14_OneInFlight ==
    /\ [](BagCardinality(ops) <= 1)
    /\ [](boot.pc # "done" => ops = EmptyBag)
    /\ [][Issues => ~InFlight /\ ~value.isLoading]_vars

C14_Witness ==
    /\ \E op \in BagToSet(ops) : op.kind = "signUp" /\ op.pc = "multiSet"
    /\ BagCardinality(ops) = 1
    /\ boot.pc = "done"
    /\ value.isLoading
    /\ screen.route = "sign-up"
    /\ ~Pressable


\* the characters the pattern allows around '@' and '.'
Plain(str) == \A k \in 1..Len(str) : str[k] \notin Whitespace \cup {"@"}

\* local part, '@', domain, '.', suffix: three non-empty runs of plain characters
EmailShaped(str) ==
    \E i, j \in 1..Len(str) :
       LET local == SubSeq(str, 1, i - 1)
           domain == SubSeq(str, i + 1, j - 1)
           suffix == SubSeq(str, j + 1, Len(str))
       IN  /\ i < j
           /\ str = local \o <<"@">> \o domain \o <<".">> \o suffix
           /\ local # << >> /\ domain # << >> /\ suffix # << >>
           /\ Plain(local) /\ Plain(domain) /\ Plain(suffix)

HasAt(str) == \E k \in 1..Len(str) : str[k] = "@"

\* C21: isValidEmail(s) is true exactly when s is one or more characters that
\* are neither whitespace nor '@', a single '@', one or more such characters,
\* a '.', and one or more such characters; so it is false for every string
\* without '@' and for "a@b", and true for "a@b.c".
C21_EmailShape ==
    output.returned =>
       /\ output.valid <=> EmailShaped(input)
       /\ ~HasAt(input) => ~output.valid
       /\ input = EmailNoDot => ~output.valid
       /\ input = EmailOk => output.valid

C21_Witness == output.returned /\ output.valid /\ input = EmailOk


\* the messages an errors object holds under a key
Messages(errors, key) == {e[2] : e \in {x \in errors : x[1] = key}}

\* nothing is left of the text once its whitespace is trimmed
Blank(str) == \A k \in 1..Len(str) : str[k] \in Whitespace

EmailMessages(email) ==
    IF Blank(email) THEN {"Email is required"}
    ELSE IF ~IsValidEmail(email) THEN {"Please enter a valid email"}
    ELSE {}

SignUpPasswordMessages(password) ==
    IF Len(password) = 0 THEN {"Password is required"}
    ELSE IF Len(password) < MinPasswordLength
    THEN {"Password must be at least 8 characters"}
    ELSE {}

NameMessages(name) ==
    IF Blank(name) THEN {"Name is required"}
    ELSE IF Len(Trim(name)) < MinNameLength
    THEN {"Name must be at least 2 characters"}
    ELSE {}

\* C22: validateSignUpForm reports for each field at most one error, by
\* priority: email 'Email is required' if empty once trimmed, else 'Please
\* enter a valid email'; password 'Password is required' if empty, else
\* 'Password must be at least 8 characters' if shorter than 8; name 'Name is
\* required' if empty once trimmed, else 'Name must be at least 2 characters'
\* if its trimmed length is below 2.  isValid is true exactly when no error is
\* reported, and the all-empty input yields all three errors.
C22_SignUpFormErrors ==
    output.returned /\ output.validator = "validateSignUpForm" =>
       /\ \A e \in output.errors : e[1] \in {"email", "password", "name"}
       /\ Messages(output.errors, "email") = EmailMessages(input[1])
       /\ Messages(output.errors, "password") = SignUpPasswordMessages(input[2])
       /\ Messages(output.errors, "name") = NameMessages(input[3])
       /\ output.isValid <=> output.errors = {}
       /\ input = <<<< >>, << >>, << >> >> =>
             output.errors = { <<"email", "Email is required">>,
                               <<"password", "Password is required">>,
                               <<"name", "Name is required">> }

C22_Witness ==
    /\ output.returned /\ output.validator = "validateSignUpForm"
    /\ input = << <<" ">>, PasswordShort, <<" ", "A", " ">> >>
    /\ output.errors = { <<"email", "Email is required">>,
                         <<"password", "Password must be at least 8 characters">>,
                         <<"name", "Name must be at least 2 characters">> }

LoginPasswordMessages(password) ==
    IF Len(password) = 0 THEN {"Password is required"} ELSE {}

\* C23: validateLoginForm sets the email error 'Email is required' if the
\* trimmed email is empty, otherwise 'Please enter a valid email' if
\* isValidEmail fails; it sets the password error 'Password is required' if the
\* password is empty; isValid is true exactly when neither error is set.
C23_LoginFormErrors ==
    output.returned /\ output.validator = "validateLoginForm" =>
       /\ \A e \in output.errors : e[1] \in {"email", "password"}
       /\ Messages(output.errors, "email") = EmailMessages(input[1])
       /\ Messages(output.errors, "password") = LoginPasswordMessages(input[2])
       /\ output.isValid <=>
             /\ Messages(output.errors, "email") = {}
             /\ Messages(output.errors, "password") = {}

C23_Witness ==
    /\ output.returned /\ output.validator = "validateLoginForm"
    /\ input[1] = EmailBlank /\ input[2] = PasswordShort
    /\ output.errors = { <<"email", "Email is required">> }
    /\ ~output.isValid


\* the operation this step calls, if it calls one
Called(op) == Issues /\ CopiesIn(op, ops') > CopiesIn(op, ops)

\* this step leaves the provider as it was: nothing called, isLoading kept
NothingInvoked ==
    /\ ops' = ops
    /\ isLoading' = isLoading
    /\ value'.isLoading = value.isLoading

EmailCheckPasses(email) == ~Blank(email) /\ IsValidEmail(email)

\* C24: the login screen calls login only when validateLoginForm is valid, the
\* sign-up screen calls signUp only when validateSignUpForm is valid, and the
\* forgot-password screen calls resetPassword only when the email is not empty
\* once trimmed and passes isValidEmail; when the validation fails no operation
\* of the provider is called and isLoading does not change.
C24_ShortCircuit ==
    [][/\ \A op \in BagToSet(ops') : Called(op) =>
             /\ op.kind = "login" =>
                   ValidateLoginForm(op.email, op.password).isValid
             /\ op.kind = "signUp" =>
                   ValidateSignUpForm(op.email, op.password, op.name).isValid
             /\ op.kind = "resetPassword" => EmailCheckPasses(op.email)
       /\ \A form \in LoginForms :
             /\ ~ValidateLoginForm(form[1], form[2]).isValid
             /\ LoginScreen_HandleLogin(form[1], form[2])
             => NothingInvoked
       /\ \A form \in SignUpForms :
             /\ ~ValidateSignUpForm(form[2], form[3], form[1]).isValid
             /\ SignUpScreen_HandleSignUp(form[1], form[2], form[3], form[4],
                                          form[5])
             => NothingInvoked
       /\ \A email \in ResetEmails :
             /\ ~EmailCheckPasses(email)
             /\ HandleEmailSubmit(email)
             => NothingInvoked
      ]_vars

C24_Witness ==
    /\ screen.route = "forgot-password"
    /\ screen.errors = { <<"email", "Please enter a valid email">> }
    /\ boot.pc = "done" /\ ops = EmptyBag
    /\ ~isLoading /\ ~value.isLoading
    /\ delivered = Nothing


\* no operation is in flight
AtRest == boot.pc = "done" /\ ops = EmptyBag

\* the store holds both keys of a session
HoldsSession == store.authToken # JsNull /\ store.userData # JsNull

\* the user record the text under userData stands for
StoredUser == JSONParse(store.userData.s).val

\* C25: as long as every call of the store succeeds, in every state where no
\* operation is in flight the current user is present if and only if the store
\* holds authToken and userData, and when present it equals the user record
\* held in userData.
C25_MemoryAgreesWithStore ==
    AtRest /\ NoFailure =>
       /\ user # NoUser <=> HoldsSession
       /\ user # NoUser => user = StoredUser


\* this step is op's validation, and the operation fails it
FailsValidation(op) ==
    /\ op.pc = "timer" /\ Leaves(op)
    /\ delivered'.who = op.kind /\ delivered'.outcome = "rejected"

\* what the screen's check says of the arguments of op
PreCheckPasses(op) ==
    IF op.kind = "login" THEN ValidateLoginForm(op.email, op.password).isValid
    ELSE IF op.kind = "signUp"
    THEN ValidateSignUpForm(op.email, op.password, op.name).isValid
    ELSE op.kind = "resetPassword" /\ EmailCheckPasses(op.email)

\* C26: the checks of the screens are at least as strict as the provider's:
\* when validateLoginForm(email, password) is valid login(email, password) does
\* not fail its validation, when validateSignUpForm(email, password, name) is
\* valid signUp(email, password, name) does not fail its validation, and when
\* the email check of the forgot-password screen passes resetPassword(email)
\* does not fail its validation.
C26_PreChecksAsStrict ==
    [][\A op \in BagToSet(ops) : PreCheckPasses(op) => ~FailsValidation(op)]_vars

C26_Witness ==
    /\ input[2] = PasswordOk
    /\ \E op \in BagToSet(ops) :
          /\ op.kind = "signUp" /\ op.pc = "multiSet"
          /\ ValidateSignUpForm(op.email, input[2], op.name).isValid


\* the sign-up button is pressed on this form
SignUpPressed(form) ==
    SignUpScreen_HandleSignUp(form[1], form[2], form[3], form[4], form[5])

SignUpFormValid(form) == ValidateSignUpForm(form[2], form[3], form[1]).isValid

MismatchReported ==
    <<"confirmPassword", "Passwords do not match">> \in screen'.errors

\* C27, as stated: the sign-up screen calls signUp only if the form is valid,
\* the confirmation equals the password and the terms are checked; a mismatched
\* confirmation produces the error 'Passwords do not match' on confirmPassword
\* and no call; unchecked terms produce no call.
C27_MismatchAlwaysReported ==
    [][\A form \in SignUpForms : SignUpPressed(form) =>
          /\ Issues => SignUpFormValid(form) /\ form[3] = form[4] /\ form[5]
          /\ form[3] # form[4] => MismatchReported /\ NothingInvoked
          /\ ~form[5] => NothingInvoked
      ]_vars

\* C27, amended: the sign-up screen calls signUp only if the form is valid, the
\* confirmation equals the password and the terms are checked; a mismatched
\* confirmation produces no call, and on a form that passes validateSignUpForm
\* it produces the error 'Passwords do not match' on confirmPassword (on a form
\* that fails it, only the errors of validateSignUpForm are shown); unchecked
\* terms produce no call.
C27_SignUpGuards ==
    [][\A form \in SignUpForms : SignUpPressed(form) =>
          /\ Issues => SignUpFormValid(form) /\ form[3] = form[4] /\ form[5]
          /\ form[3] # form[4] => NothingInvoked
          /\ SignUpFormValid(form) /\ form[3] # form[4] => MismatchReported
          /\ ~SignUpFormValid(form) =>
                screen'.errors = ValidateSignUpForm(form[2], form[3], form[1]).errors
          /\ ~form[5] => NothingInvoked
      ]_vars

C27_Witness ==
    /\ screen.route = "sign-up"
    /\ screen.errors = { <<"confirmPassword", "Passwords do not match">> }
    /\ boot.pc = "done" /\ ops = EmptyBag
    /\ ~isLoading
    /\ delivered = Nothing


\* this step stays on one forgot-password screen
OnForgotPassword ==
    screen.route = "forgot-password" /\ screen'.route = "forgot-password"

\* the alert handleEmailSubmit raises once resetPassword has resolved
IsCheckYourEmail(alert) ==
    alert.title = "Check Your Email" /\ alert.onPress = "setStep"

\* this step raises an alert that was not on display
Raises(alert) ==
    /\ Len(screen'.alerts) = Len(screen.alerts) + 1
    /\ screen'.alerts[Len(screen'.alerts)] = alert

CodePasses(code) == Len(code) = CodeLength /\ ~Blank(code)

NewPasswordPasses(form) ==
    Len(form[1]) >= MinPasswordLength /\ form[1] = form[2]

\* the steps of the screens that change, or are to keep, the step on display
C28_Steps ==
    [][/\ OnForgotPassword /\ screen'.step # screen.step =>
             \/ /\ screen.step = "email" /\ screen'.step = "verification"
                /\ screen.alerts # << >> /\ IsCheckYourEmail(Head(screen.alerts))
                /\ DismissAlert
             \/ /\ screen.step = "verification" /\ screen'.step = "reset"
                /\ \E code \in Codes :
                      CodePasses(code) /\ HandleVerificationSubmit(code)
       /\ \A i \in 1..Len(screen'.alerts) :
             IsCheckYourEmail(screen'.alerts[i]) /\ Raises(screen'.alerts[i]) =>
                delivered' = Resolved("resetPassword")
       /\ delivered'.who = "resetPassword" /\ delivered'.outcome = "rejected" =>
             screen'.step = screen.step
       /\ \A email \in ResetEmails :
             ~EmailCheckPasses(email) /\ HandleEmailSubmit(email) =>
                screen'.step = screen.step
       /\ \A code \in Codes :
             ~CodePasses(code) /\ HandleVerificationSubmit(code) =>
                screen'.step = screen.step
       /\ \A form \in NewPasswords :
             ~NewPasswordPasses(form) /\ HandlePasswordReset(form[1], form[2]) =>
                screen'.step = screen.step
      ]_vars

\* C28: the forgot-password screen moves through its steps forwards only, in
\* the order email, verification, reset: verification is entered only after a
\* resetPassword call succeeded, reset is entered only from verification with a
\* code of exactly 6 characters that is not blank, a failed resetPassword or a
\* failed check leaves the step as it is, and no handler returns to an earlier
\* step.
C28_StepsForward ==
    /\ [](LET failed == Rejected("resetPassword", "Email is required")
              sc == AfterAwait(screen, failed)
          IN  /\ sc.step = screen.step
              /\ sc.alerts = Append(screen.alerts,
                                    Alert("Error", failed.error, "none")))
    /\ C28_Steps

C28_Witness ==
    /\ screen.route = "forgot-password" /\ screen.step = "reset"
    /\ screen.errors = { <<"password", "Password must be at least 8 characters">> }
    /\ screen.alerts = << >>


\* C29: on the sign-up screen the width of the fill of the password-strength
\* bar, (passwordStrength + 1) * 25 percent, is within 25..100 percent for
\* every non-empty password.
C29_FillWidthInRange ==
    output.rendered /\ output.shown =>
       25 <= output.width /\ output.width <= 100

====
